---- MODULE Spec2Model ----
(***************************************************************************)
(* Model of src/src/main.py (smart-shelf): the two SQLite tables           *)
(* (sessions, storage_space_details) and the tool functions that read and  *)
(* write them.                                                             *)
(*                                                                         *)
(* Spec      one caller, every tool function one atomic action             *)
(* SpecConc  several flows (processes sharing the two database files),     *)
(*           one action per SQL statement, interleaved freely              *)
(* SpecRace  the flows enter reserve_spot together for one located spot    *)
(* SpecBoot  one caller, and the program is started again at any time      *)
(*           with the config list changed                                  *)
(*                                                                         *)
(* SQLite runs each statement atomically; a lock time-out ("database is    *)
(* locked") is not modelled.  A SELECT without ORDER BY is a table scan    *)
(* in rowid order, which is the order of insertion.                        *)
(*                                                                         *)
(* Apartment strings are sequences of one-character strings so that        *)
(* str.upper() is computed character by character.  The session's JSON     *)
(* text is modelled by the mapping it encodes (json.dumps / json.loads of  *)
(* str, bool and list values).                                             *)
(***************************************************************************)
EXTENDS Integers, Sequences, FiniteSets, TLC

VARIABLES sessions, spots, last, pc, loc

vars == <<sessions, spots, last, pc, loc>>

----------------------------------------------------------------------------
(* Bounds *)

\* number of spots listed in smart_shelf_config.json
NumSpots == 3
\* number of tool calls made between two delete_session calls
MaxOps == 6
\* number of concurrent flows in SpecConc
NumFlows == 2
\* number of tool calls each flow makes in SpecConc
MaxCalls == 2

----------------------------------------------------------------------------
(* Configuration and inputs *)

SESSION_ID == "concierge_desk"

DefaultLocation == "Main Area"

\* spot ids in ascending (string) order; Rank gives the position
SortedIds == <<"L-1", "M-1", "M-2", "S-1", "S-2">>

Rank(id) == CHOOSE i \in DOMAIN SortedIds : SortedIds[i] = id

\* the items of config["storage_space_details"], in file order
\* (loc = "" stands for an item without a "location" key)
Catalogue ==
  << [spot_id |-> "M-2", size |-> "M", loc |-> "Shelf B"],
     [spot_id |-> "M-1", size |-> "M", loc |-> "Shelf A"],
     [spot_id |-> "L-1", size |-> "L", loc |-> ""],
     [spot_id |-> "S-1", size |-> "S", loc |-> "Shelf C"],
     [spot_id |-> "S-2", size |-> "S", loc |-> ""] >>

Reverse(s) == [i \in 1..Len(s) |-> s[Len(s) + 1 - i]]

Min2(a, b) == IF a < b THEN a ELSE b

Descriptor == SubSeq(Catalogue, 1, Min2(NumSpots, Len(Catalogue)))

\* the file orders considered for the same set of items
Descriptors == {Descriptor, Reverse(Descriptor)}

\* size arguments a caller may pass to set_size (the hint is Literal["S","M","L"])
SizeArgs == {"M", "L", "XL"}

ValidSizes == {"S", "M", "L"}

EmptyStr == << >>

\* apartment arguments a caller may pass to set_apartment
ApartmentArgs == {EmptyStr, <<"3", "b">>, <<"3", "B">>, <<"4", "A">>}

UpperChar(c) ==
  CASE c = "a" -> "A"
    [] c = "b" -> "B"
    [] OTHER -> c

\* str.upper()
Upper(s) == [i \in DOMAIN s |-> UpperChar(s[i])]

----------------------------------------------------------------------------
(* Python dict / JSON object *)

EmptyDict == [k \in {} |-> FALSE]

Has(d, k) == k \in DOMAIN d

\* session[key] = value
Put(d, k, v) == [x \in (DOMAIN d) \cup {k} |-> IF x = k THEN v ELSE d[x]]

----------------------------------------------------------------------------
(* sessions table: session_id TEXT PRIMARY KEY, data TEXT NOT NULL *)

NoRows == [k \in {} |-> EmptyDict]

\* SELECT data FROM sessions WHERE session_id = ?   (fetchone() is None)
RowIsNone(tbl) == SESSION_ID \notin DOMAIN tbl

\* json.loads(row["data"])
RowData(tbl) == tbl[SESSION_ID]

\* INSERT INTO sessions (session_id, data) VALUES (?, "{}")
\* defined only when the primary key is free
InsertEmpty(tbl) == [x \in (DOMAIN tbl) \cup {SESSION_ID} |-> EmptyDict]

\* INSERT ... ON CONFLICT(session_id) DO UPDATE SET data = excluded.data
Upsert(tbl, d) == [x \in (DOMAIN tbl) \cup {SESSION_ID} |-> d]

\* variant: the DELETE matches no row
DeleteNoRows(tbl) == tbl

\* DELETE FROM sessions WHERE session_id = ?
DeleteRows(tbl) == [x \in (DOMAIN tbl) \ {SESSION_ID} |-> tbl[x]]

\* variant: the count of a DELETE that always matched
DeleteCountOne(tbl) == 1

\* cur.rowcount after the DELETE
DeleteCount(tbl) == IF RowIsNone(tbl) THEN 0 ELSE 1

\* get_or_create_session() run without interference: the table afterwards
GocTable(tbl) == IF RowIsNone(tbl) THEN InsertEmpty(tbl) ELSE tbl

\* get_or_create_session() run without interference: the dict returned
GocData(tbl) == IF RowIsNone(tbl) THEN EmptyDict ELSE RowData(tbl)

\* set_in_session(key, value) run without interference: the table afterwards
SetInSession(tbl, k, v) == Upsert(GocTable(tbl), Put(GocData(tbl), k, v))

----------------------------------------------------------------------------
(* storage_space_details table: a sequence of rows in rowid order *)

NewRow(item) ==
  [spot_id |-> item.spot_id, size |-> item.size,
   location |-> IF item.loc = "" THEN DefaultLocation ELSE item.loc,
   apartment |-> EmptyStr, occupied |-> 0]

SpotIds(tbl) == {tbl[i].spot_id : i \in DOMAIN tbl}

RECURSIVE ScanRows(_, _)
\* the rows i of tbl with keep[i], in table-scan (rowid) order
ScanRows(tbl, keep) ==
  IF tbl = << >> THEN << >>
  ELSE LET rest == ScanRows(Tail(tbl), [i \in 1..(Len(tbl) - 1) |-> keep[i + 1]])
       IN  IF keep[1] THEN <<Head(tbl)>> \o rest ELSE rest

\* to_add: the config items whose spot_id is not in existing, in file order
ToAdd(tbl, items) ==
  ScanRows(items, [i \in DOMAIN items |-> items[i].spot_id \notin SpotIds(tbl)])

\* to_add names a spot_id twice: the executemany hits the PRIMARY KEY
ToAddClash(tbl, items) ==
  LET to_add == ToAdd(tbl, items)
  IN  \E i, j \in DOMAIN to_add : i # j /\ to_add[i].spot_id = to_add[j].spot_id

\* variant: INSERT OR REPLACE of every config item
InsertOrReplace(tbl, items) ==
  LET to_add == ToAdd(tbl, items)
  IN  [i \in DOMAIN tbl |->
         IF \E k \in DOMAIN items : items[k].spot_id = tbl[i].spot_id
         THEN NewRow(items[CHOOSE k \in DOMAIN items : items[k].spot_id = tbl[i].spot_id])
         ELSE tbl[i]]
      \o [i \in DOMAIN to_add |-> NewRow(to_add[i])]

\* executemany INSERT of to_add
InsertMissing(tbl, items) ==
  LET to_add == ToAdd(tbl, items)
  IN  tbl \o [i \in DOMAIN to_add |-> NewRow(to_add[i])]

\* the exception init_storage_db() ends with ("none" if it returns)
InitStorageDbErr(tbl, items) ==
  IF ToAddClash(tbl, items) THEN "IntegrityError" ELSE "none"

\* init_storage_db() with the given config items: the table afterwards
\* (when the executemany raises, commit() is not reached and nothing is kept)
InitStorageDb(tbl, items) ==
  IF ToAddClash(tbl, items) THEN tbl ELSE InsertMissing(tbl, items)

\* SELECT spot_id, location FROM storage_space_details WHERE size=? AND occupied=0
SelectUnoccupied(tbl, size) ==
  LET hit == ScanRows(tbl, [i \in DOMAIN tbl |-> tbl[i].size = size /\ tbl[i].occupied = 0])
  IN  [i \in DOMAIN hit |-> [spot_id |-> hit[i].spot_id, location |-> hit[i].location]]

\* variant: the UPDATE without "AND occupied=0"
OccupyMatchAnyRow(tbl, sid) == {i \in DOMAIN tbl : tbl[i].spot_id = sid}

\* UPDATE ... SET occupied=1, apartment=? WHERE spot_id=? AND occupied=0 : rows matched
OccupyMatch(tbl, sid) == {i \in DOMAIN tbl : tbl[i].spot_id = sid /\ tbl[i].occupied = 0}

\* variant: the row is written whether or not it is occupied
TryOccupyOverwrite(tbl, sid, apt) ==
  [i \in DOMAIN tbl |->
     IF tbl[i].spot_id = sid
     THEN [tbl[i] EXCEPT !.occupied = 1, !.apartment = apt]
     ELSE tbl[i]]

\* the table after that UPDATE
TryOccupy(tbl, sid, apt) ==
  [i \in DOMAIN tbl |->
     IF i \in OccupyMatch(tbl, sid)
     THEN [tbl[i] EXCEPT !.occupied = 1, !.apartment = apt]
     ELSE tbl[i]]

\* SELECT spot_id, size, location FROM ... WHERE apartment=? AND occupied=1
SelectOccupied(tbl, apt) ==
  LET hit == ScanRows(tbl, [i \in DOMAIN tbl |-> tbl[i].apartment = apt /\ tbl[i].occupied = 1])
  IN  [i \in DOMAIN hit |->
         [spot_id |-> hit[i].spot_id, size |-> hit[i].size, location |-> hit[i].location]]

\* sqlite3 cursor.rowcount after a SELECT statement
SelectRowcount == -1

\* UPDATE ... SET occupied=0, apartment='' WHERE apartment=? : rows matched
ReleaseMatch(tbl, apt) == {i \in DOMAIN tbl : tbl[i].apartment = apt}

\* variant: the UPDATE without its WHERE clause
ReleaseAllRows(tbl, apt) ==
  [i \in DOMAIN tbl |-> [tbl[i] EXCEPT !.occupied = 0, !.apartment = EmptyStr]]

\* the table after that UPDATE
ReleaseAll(tbl, apt) ==
  [i \in DOMAIN tbl |->
     IF i \in ReleaseMatch(tbl, apt)
     THEN [tbl[i] EXCEPT !.occupied = 0, !.apartment = EmptyStr]
     ELSE tbl[i]]

----------------------------------------------------------------------------
(* The tool functions, each run from start to end without interference.    *)
(* Each yields the two tables afterwards, the exception raised ("none" if  *)
(* it returned) and the value returned.                                    *)

Result(stbl, ptbl, err, ret, msg) ==
  [sessions |-> stbl, spots |-> ptbl, err |-> err, ret |-> ret, msg |-> msg]

delete_session(stbl, ptbl) ==
  Result(DeleteRows(stbl), ptbl, "none", EmptyDict,
         IF DeleteCount(stbl) > 0 THEN "Session deleted successfully."
                                  ELSE "No session found to delete.")

set_size(stbl, ptbl, size) ==
  LET t1 == SetInSession(stbl, "size", size)
  IN  Result(GocTable(t1), ptbl, "none", GocData(t1), "")

\* variant: the apartment is stored as typed
set_apartment_as_typed(stbl, ptbl, apartment) ==
  LET t1 == SetInSession(stbl, "apartment_number", apartment)
  IN  Result(GocTable(t1), ptbl, "none", GocData(t1), "")

set_apartment(stbl, ptbl, apartment) ==
  LET t1 == SetInSession(stbl, "apartment_number", Upper(apartment))
  IN  Result(GocTable(t1), ptbl, "none", GocData(t1), "")

\* variant: the spot found is held (marked occupied) at once
find_available_spots_holding(stbl, ptbl) ==
  LET t0    == GocTable(stbl)
      state == GocData(stbl)
  IN  IF ~Has(state, "size")
      THEN Result(t0, ptbl, "KeyError: size", EmptyDict, "")
      ELSE LET found == SelectUnoccupied(ptbl, state["size"])
               t1 == IF found # << >>
                     THEN SetInSession(
                            SetInSession(
                              SetInSession(t0, "spot_available", TRUE),
                              "spot_id", found[1].spot_id),
                            "spot_location", found[1].location)
                     ELSE SetInSession(t0, "spot_available", FALSE)
               p1 == IF found # << >> THEN TryOccupy(ptbl, found[1].spot_id, EmptyStr)
                                      ELSE ptbl
           IN  Result(GocTable(t1), p1, "none", GocData(t1), "")

find_available_spots(stbl, ptbl) ==
  LET t0    == GocTable(stbl)
      state == GocData(stbl)
  IN  IF ~Has(state, "size")
      THEN Result(t0, ptbl, "KeyError: size", EmptyDict, "")
      ELSE LET found == SelectUnoccupied(ptbl, state["size"])
               t1 == IF found # << >>
                     THEN SetInSession(
                            SetInSession(
                              SetInSession(t0, "spot_available", TRUE),
                              "spot_id", found[1].spot_id),
                            "spot_location", found[1].location)
                     ELSE SetInSession(t0, "spot_available", FALSE)
           IN  Result(GocTable(t1), ptbl, "none", GocData(t1), "")

\* variant: state.get(key, "") in place of state[key]
reserve_spot_default(stbl, ptbl) ==
  LET t0    == GocTable(stbl)
      state == GocData(stbl)
      apt   == IF Has(state, "apartment_number") THEN state["apartment_number"] ELSE EmptyStr
      sid   == IF Has(state, "spot_id") THEN state["spot_id"] ELSE ""
      success == Cardinality(OccupyMatch(ptbl, sid)) > 0
      p1 == TryOccupy(ptbl, sid, apt)
      t1 == IF success
            THEN SetInSession(t0, "reservation_status", TRUE)
            ELSE SetInSession(t0, "reservation_status", FALSE)
  IN  Result(GocTable(t1), p1, "none", GocData(t1), "")

reserve_spot(stbl, ptbl) ==
  LET t0    == GocTable(stbl)
      state == GocData(stbl)
  IN  IF ~Has(state, "apartment_number")
      THEN Result(t0, ptbl, "KeyError: apartment_number", EmptyDict, "")
      ELSE IF ~Has(state, "spot_id")
      THEN Result(t0, ptbl, "KeyError: spot_id", EmptyDict, "")
      ELSE LET success == Cardinality(OccupyMatch(ptbl, state["spot_id"])) > 0
               p1 == TryOccupy(ptbl, state["spot_id"], state["apartment_number"])
               t1 == IF success
                     THEN SetInSession(t0, "reservation_status", TRUE)
                     ELSE SetInSession(t0, "reservation_status", FALSE)
           IN  Result(GocTable(t1), p1, "none", GocData(t1), "")

find_packages(stbl, ptbl) ==
  LET t0    == GocTable(stbl)
      state == GocData(stbl)
  IN  IF ~Has(state, "apartment_number")
      THEN Result(t0, ptbl, "KeyError: apartment_number", EmptyDict, "")
      ELSE LET pkgs == SelectOccupied(ptbl, state["apartment_number"])
               t1 == IF SelectRowcount > 0
                     THEN SetInSession(t0, "packages_found", TRUE)
                     ELSE SetInSession(t0, "packages_found", FALSE)
               t2 == SetInSession(t1, "packages_info", pkgs)
           IN  Result(GocTable(t2), ptbl, "none", GocData(t2), "")

release_packages(stbl, ptbl) ==
  LET t0    == GocTable(stbl)
      state == GocData(stbl)
  IN  IF ~Has(state, "apartment_number")
      THEN Result(t0, ptbl, "KeyError: apartment_number", EmptyDict, "")
      ELSE LET count == Cardinality(ReleaseMatch(ptbl, state["apartment_number"]))
               p1 == ReleaseAll(ptbl, state["apartment_number"])
               t1 == IF count > 0
                     THEN SetInSession(t0, "release_status", TRUE)
                     ELSE SetInSession(t0, "release_status", FALSE)
           IN  Result(GocTable(t1), p1, "none", GocData(t1), "")

----------------------------------------------------------------------------
(* Spec: one caller; each tool call is one action *)

Flows == 1..NumFlows

\* a flow's local variables: the tool function it is in (op) and the argument
\* it was called with (arg), state (the
\* dict read on entry), todo (the set_in_session calls still to make),
\* session (the dict set_in_session is about to write), n (calls started),
\* out (the outcome of its last call that ended: op, err, ret, msg), saw (the
\* spot_id its last find_available_spots selected as unoccupied and returned
\* as available, "" if none)
\* and tries (the outcome of each UPDATE it issued in reserve_spot: spot_id,
\* apartment, success)
NoOutcome == [op |-> "", err |-> "none", ret |-> EmptyDict, msg |-> ""]

NoLocals ==
  [f \in Flows |->
     [op |-> "", arg |-> "", state |-> EmptyDict, todo |-> << >>, session |-> EmptyDict,
      n |-> 0, out |-> NoOutcome, saw |-> "", tries |-> << >>]]

Init ==
  /\ sessions = NoRows
  /\ \E items \in Descriptors : spots = InitStorageDb(<< >>, items)
  /\ last = [op |-> "start", arg |-> "", err |-> "none", ret |-> EmptyDict, msg |-> "", n |-> 0]
  /\ pc = [f \in Flows |-> "off"]
  /\ loc = NoLocals

\* the caller observes r as the outcome of tool call op
Return(op, arg, r, n) ==
  /\ sessions' = r.sessions
  /\ spots' = r.spots
  /\ last' = [op |-> op, arg |-> arg, err |-> r.err, ret |-> r.ret, msg |-> r.msg, n |-> n]
  /\ UNCHANGED <<pc, loc>>

DeleteSession ==
  Return("delete_session", "", delete_session(sessions, spots), 0)

SetSize ==
  /\ last.n < MaxOps
  /\ \E size \in SizeArgs :
       Return("set_size", size, set_size(sessions, spots, size), last.n + 1)

SetApartment ==
  /\ last.n < MaxOps
  /\ \E apartment \in ApartmentArgs :
       Return("set_apartment", apartment, set_apartment(sessions, spots, apartment), last.n + 1)

FindAvailableSpots ==
  /\ last.n < MaxOps
  /\ Return("find_available_spots", "", find_available_spots(sessions, spots), last.n + 1)

ReserveSpot ==
  /\ last.n < MaxOps
  /\ Return("reserve_spot", "", reserve_spot(sessions, spots), last.n + 1)

FindPackages ==
  /\ last.n < MaxOps
  /\ Return("find_packages", "", find_packages(sessions, spots), last.n + 1)

ReleasePackages ==
  /\ last.n < MaxOps
  /\ Return("release_packages", "", release_packages(sessions, spots), last.n + 1)

Next ==
  \/ DeleteSession
  \/ SetSize
  \/ SetApartment
  \/ FindAvailableSpots
  \/ ReserveSpot
  \/ FindPackages
  \/ ReleasePackages

Spec == Init /\ [][Next]_vars

----------------------------------------------------------------------------
(* SpecConc: concurrent storage flows sharing both database files.  Every  *)
(* SQL statement is one step (each runs in its own implicit transaction);  *)
(* the Python code between two statements belongs to the later step.       *)
(* pc: idle -> [goc (-> goc_ins) -> sql] -> {set_get (-> set_ins) ->       *)
(* set_put}* -> ret_get (-> ret_ins) -> idle;  delete_session: del -> idle *)

KV(k, v) == [k |-> k, v |-> v]

\* the arguments taken in SpecConc
ConcSizeArgs == {"M", "L"}

ConcApartmentArgs == {<<"3", "b">>, <<"4", "A">>}

\* the tool calls a flow may make: name, argument
ConcCalls ==
  {<<"delete_session", "">>, <<"find_available_spots", "">>, <<"reserve_spot", "">>}
  \cup {<<"set_size", size>> : size \in ConcSizeArgs}
  \cup {<<"set_apartment", apartment>> : apartment \in ConcApartmentArgs}

\* the session left by set_size(size); set_apartment(apartment) on a fresh table
Prepared(size, apartment) ==
  set_apartment(set_size(NoRows, << >>, size).sessions, << >>, apartment).sessions

InitConc ==
  /\ sessions \in {NoRows} \cup {Prepared(size, apartment) :
                                   size \in ConcSizeArgs, apartment \in ConcApartmentArgs}
  /\ \E items \in Descriptors : spots = InitStorageDb(<< >>, items)
  /\ last = [op |-> "start", arg |-> "", err |-> "none", ret |-> EmptyDict, msg |-> "", n |-> 0]
  /\ pc = [f \in Flows |-> "idle"]
  /\ loc = NoLocals

Goto(f, label) == pc' = [pc EXCEPT ![f] = label]

Outcome(op, err, ret, msg) == [op |-> op, err |-> err, ret |-> ret, msg |-> msg]

\* the call ends: the tool function returned, or raised err
End(f, err, ret, msg) ==
  /\ loc' = [loc EXCEPT ![f].state = EmptyDict, ![f].todo = << >>,
                        ![f].session = EmptyDict,
                        ![f].out = Outcome(loc[f].op, err, ret, msg),
                        ![f].saw = IF loc[f].op # "find_available_spots" THEN @
                                   ELSE IF /\ err = "none"
                                           /\ Has(ret, "spot_available")
                                           /\ ret["spot_available"]
                                           /\ Has(ret, "spot_id")
                                           /\ ret["spot_id"] = @
                                        THEN @ ELSE ""]
  /\ Goto(f, "idle")

Raise(f, e) == End(f, e, EmptyDict, "")

\* flow f enters tool function call[1] with argument call[2]
BeginCall(f, call) ==
  /\ pc[f] = "idle"
  /\ loc' = [loc EXCEPT ![f].op = call[1], ![f].arg = call[2], ![f].n = @ + 1, ![f].out = NoOutcome,
                        ![f].todo =
                          CASE call[1] = "set_size" -> <<KV("size", call[2])>>
                            [] call[1] = "set_apartment" ->
                                 <<KV("apartment_number", Upper(call[2]))>>
                            [] OTHER -> << >>]
  /\ Goto(f, CASE call[1] = "delete_session" -> "del"
               [] call[1] \in {"set_size", "set_apartment"} -> "set_get"
               [] OTHER -> "goc")
  /\ UNCHANGED <<sessions, spots, last>>

Begin(f) ==
  /\ loc[f].n < MaxCalls
  /\ \E call \in ConcCalls : BeginCall(f, call)

\* delete_session: the DELETE statement
Del(f) ==
  /\ pc[f] = "del"
  /\ sessions' = DeleteRows(sessions)
  /\ End(f, "none", EmptyDict, IF DeleteCount(sessions) > 0
                               THEN "Session deleted successfully."
                               ELSE "No session found to delete.")
  /\ UNCHANGED <<spots, last>>

\* get_or_create_session() returned d to its caller at label at
Got(f, at, d) ==
  CASE at = "goc" ->
         /\ loc' = [loc EXCEPT ![f].state = d]
         /\ Goto(f, "sql")
    [] at = "set_get" ->
         /\ loc' = [loc EXCEPT ![f].session = Put(d, Head(loc[f].todo).k, Head(loc[f].todo).v)]
         /\ Goto(f, "set_put")
    [] at = "ret_get" -> End(f, "none", d, "")

\* get_or_create_session: the SELECT statement
GocSelect(f) ==
  /\ pc[f] \in {"goc", "set_get", "ret_get"}
  /\ IF RowIsNone(sessions)
     THEN /\ Goto(f, CASE pc[f] = "goc" -> "goc_ins"
                       [] pc[f] = "set_get" -> "set_ins"
                       [] pc[f] = "ret_get" -> "ret_ins")
          /\ UNCHANGED loc
     ELSE Got(f, pc[f], RowData(sessions))
  /\ UNCHANGED <<sessions, spots, last>>

\* get_or_create_session: the INSERT statement after fetchone() gave None
GocInsert(f) ==
  /\ pc[f] \in {"goc_ins", "set_ins", "ret_ins"}
  /\ IF RowIsNone(sessions)
     THEN /\ sessions' = InsertEmpty(sessions)
          /\ Got(f, CASE pc[f] = "goc_ins" -> "goc"
                      [] pc[f] = "set_ins" -> "set_get"
                      [] pc[f] = "ret_ins" -> "ret_get", EmptyDict)
     ELSE \* UNIQUE constraint failed: sessions.session_id
          /\ Raise(f, "IntegrityError")
          /\ UNCHANGED sessions
  /\ UNCHANGED <<spots, last>>

\* set_in_session: the INSERT ... ON CONFLICT DO UPDATE statement
SetPut(f) ==
  /\ pc[f] = "set_put"
  /\ sessions' = Upsert(sessions, loc[f].session)
  /\ loc' = [loc EXCEPT ![f].todo = Tail(@), ![f].session = EmptyDict]
  /\ Goto(f, IF Tail(loc[f].todo) = << >> THEN "ret_get" ELSE "set_get")
  /\ UNCHANGED <<spots, last>>

\* find_available_spots: the SELECT on storage_space_details
SqlFind(f) ==
  /\ pc[f] = "sql"
  /\ loc[f].op = "find_available_spots"
  /\ IF ~Has(loc[f].state, "size")
     THEN Raise(f, "KeyError: size")
     ELSE LET found == SelectUnoccupied(spots, loc[f].state["size"])
          IN  /\ loc' = [loc EXCEPT
                           ![f].todo =
                             IF found # << >>
                             THEN <<KV("spot_available", TRUE),
                                    KV("spot_id", found[1].spot_id),
                                    KV("spot_location", found[1].location)>>
                             ELSE <<KV("spot_available", FALSE)>>,
                           ![f].saw = IF found # << >> THEN found[1].spot_id ELSE ""]
              /\ Goto(f, "set_get")
  /\ UNCHANGED <<sessions, spots, last>>

\* reserve_spot: the UPDATE on storage_space_details
SqlReserve(f) ==
  /\ pc[f] = "sql"
  /\ loc[f].op = "reserve_spot"
  /\ IF ~Has(loc[f].state, "apartment_number")
     THEN Raise(f, "KeyError: apartment_number") /\ UNCHANGED spots
     ELSE IF ~Has(loc[f].state, "spot_id")
     THEN Raise(f, "KeyError: spot_id") /\ UNCHANGED spots
     ELSE LET sid == loc[f].state["spot_id"]
              apt == loc[f].state["apartment_number"]
              success == Cardinality(OccupyMatch(spots, sid)) > 0
          IN  /\ spots' = TryOccupy(spots, sid, apt)
              /\ loc' = [loc EXCEPT
                           ![f].todo = IF success THEN <<KV("reservation_status", TRUE)>>
                                                  ELSE <<KV("reservation_status", FALSE)>>,
                           ![f].tries = Append(@, [spot_id |-> sid, apartment |-> apt,
                                                   success |-> success])]
              /\ Goto(f, "set_get")
  /\ UNCHANGED <<sessions, last>>

NextConc ==
  \E f \in Flows :
    \/ Begin(f)
    \/ Del(f)
    \/ GocSelect(f)
    \/ GocInsert(f)
    \/ SetPut(f)
    \/ SqlFind(f)
    \/ SqlReserve(f)

SpecConc == InitConc /\ [][NextConc]_vars

----------------------------------------------------------------------------
(* SpecRace: NumFlows callers enter reserve_spot at the same time, after   *)
(* the conversation has run set_size, set_apartment and                    *)
(* find_available_spots; meanwhile the conversation may call set_apartment *)
(* again, so that the callers can read different apartment numbers.        *)

InitRace ==
  /\ \E items \in Descriptors :
       /\ spots = InitStorageDb(<< >>, items)
       /\ \E size \in ConcSizeArgs, apartment \in ConcApartmentArgs :
            sessions = find_available_spots(Prepared(size, apartment), spots).sessions
  /\ last = [op |-> "start", arg |-> "", err |-> "none", ret |-> EmptyDict, msg |-> "", n |-> 0]
  /\ pc = [f \in Flows |-> "idle"]
  /\ loc = NoLocals

RaceBegin(f) ==
  /\ loc[f].n < 1
  /\ BeginCall(f, <<"reserve_spot", "">>)

\* a whole set_apartment call of the conversation
RaceSetApartment ==
  /\ \E apartment \in ConcApartmentArgs :
       sessions' = set_apartment(sessions, spots, apartment).sessions
  /\ UNCHANGED <<spots, last, pc, loc>>

NextRace ==
  \/ \E f \in Flows :
       \/ RaceBegin(f)
       \/ GocSelect(f)
       \/ SqlReserve(f)
       \/ SetPut(f)
  \/ RaceSetApartment

SpecRace == InitRace /\ [][NextRace]_vars

----------------------------------------------------------------------------
(* SpecBoot: one caller stores and releases packages, each tool call one   *)
(* action, and the program may be started again at any time with another   *)
(* smart_shelf_config.json; both database files stay on disk.              *)

\* the config lists a start may find: the items in either order, the list
\* without its first item, and the list with its first item written twice
BootDescriptors ==
  Descriptors \cup {Tail(Descriptor), Descriptor \o <<Descriptor[1]>>}

InitBoot ==
  /\ sessions = NoRows
  /\ \E items \in BootDescriptors :
       /\ ~ToAddClash(<< >>, items)
       /\ spots = InitStorageDb(<< >>, items)
  /\ last = [op |-> "start", arg |-> "", err |-> "none", ret |-> EmptyDict, msg |-> "", n |-> 0]
  /\ pc = [f \in Flows |-> "off"]
  /\ loc = NoLocals

\* the module is loaded again: init_sessions_db() finds its table and
\* changes nothing, init_storage_db() runs on the table as it is
Restart ==
  \E items \in BootDescriptors :
    /\ spots' = InitStorageDb(spots, items)
    /\ last' = [op |-> "init_storage_db", arg |-> items,
                err |-> InitStorageDbErr(spots, items),
                ret |-> EmptyDict, msg |-> "", n |-> last.n]
    /\ UNCHANGED <<sessions, pc, loc>>

BootSetSize ==
  /\ last.n < MaxOps
  /\ \E size \in ConcSizeArgs :
       Return("set_size", size, set_size(sessions, spots, size), last.n + 1)

BootSetApartment ==
  /\ last.n < MaxOps
  /\ \E apartment \in ConcApartmentArgs :
       Return("set_apartment", apartment, set_apartment(sessions, spots, apartment), last.n + 1)

NextBoot ==
  \/ Restart
  \/ DeleteSession
  \/ BootSetSize
  \/ BootSetApartment
  \/ FindAvailableSpots
  \/ ReserveSpot
  \/ ReleasePackages

SpecBoot == InitBoot /\ [][NextBoot]_vars

----------------------------------------------------------------------------
(* Claims *)

\* the session row as stored (the empty dict when there is no row)
Session == IF RowIsNone(sessions) THEN EmptyDict ELSE RowData(sessions)

\* the rows occupied by apartment apt
OccupiedBy(tbl, apt) == {i \in DOMAIN tbl : tbl[i].occupied = 1 /\ tbl[i].apartment = apt}

\* the unoccupied rows of a size
FreeOfSize(tbl, size) == {i \in DOMAIN tbl : tbl[i].occupied = 0 /\ tbl[i].size = size}

\* the last tool call was op and it returned (raised nothing)
Returned(op) == last.op = op /\ last.err = "none"

\* C1: in every reachable state every spot satisfies
\* occupied == (occupant != empty), whatever strings record_apartment was given
C1_OccupiedIffOccupant ==
  \A i \in DOMAIN spots : (spots[i].occupied = 1) <=> (spots[i].apartment # EmptyStr)

\* C2: of the callers that have issued the UPDATE of reserve_spot for the same
\* unoccupied spot, exactly one was told the change was applied, all others were
\* told it was not, and the spot is occupied by the successful caller's apartment
C2_ExactlyOneSuccess ==
  LET target == Session["spot_id"]
      tried  == {f \in Flows : loc[f].tries # << >>}
      won    == {f \in tried : loc[f].tries[1].success}
      row    == CHOOSE i \in DOMAIN spots : spots[i].spot_id = target
  IN  /\ \A f \in tried : loc[f].tries[1].spot_id = target
      /\ tried = {} => spots[row].occupied = 0
      /\ tried # {} =>
           /\ Cardinality(won) = 1
           /\ Cardinality(tried \ won) = Cardinality(tried) - 1
           /\ \A f \in won : /\ spots[row].occupied = 1
                             /\ spots[row].apartment = loc[f].tries[1].apartment

\* C2 witness: every caller has issued its UPDATE, and a caller that lost had
\* passed another apartment than the one that won
C2_Witness ==
  /\ \A f \in Flows : loc[f].tries # << >>
  /\ \E f, g \in Flows :
       /\ loc[f].tries[1].success
       /\ ~loc[g].tries[1].success
       /\ loc[f].tries[1].apartment # loc[g].tries[1].apartment

\* flow f's last call was reserve_spot and the snapshot it returned holds
\* reservation_status = v
Reports(f, v) ==
  /\ pc[f] = "idle"
  /\ loc[f].out.op = "reserve_spot"
  /\ loc[f].out.err = "none"
  /\ Has(loc[f].out.ret, "reservation_status")
  /\ loc[f].out.ret["reservation_status"] = v

\* flows f and g both had find_available_spots return the same spot as
\* available, the only spot of its size, both then issued reserve_spot's UPDATE
\* for it, and both calls have returned
RacedForOnlySpot(f, g) ==
  /\ f # g
  /\ loc[f].saw # "" /\ loc[f].saw = loc[g].saw
  /\ \A i, j \in DOMAIN spots :
       spots[i].spot_id = loc[f].saw /\ spots[j].size = spots[i].size => i = j
  /\ \A h \in {f, g} :
       /\ pc[h] = "idle"
       /\ loc[h].out.op = "reserve_spot"
       /\ loc[h].out.err = "none"
       /\ loc[h].tries # << >>
       /\ loc[h].tries[Len(loc[h].tries)].spot_id = loc[h].saw

\* C3: when two flows raced for the only free spot of a size, exactly one
\* reserve_spot returns a snapshot with reservation_status = true and the other
\* one with reservation_status = false
C3_ExactlyOneReportsTrue ==
  \A f, g \in Flows :
    RacedForOnlySpot(f, g) =>
      \/ Reports(f, TRUE) /\ Reports(g, FALSE)
      \/ Reports(g, TRUE) /\ Reports(f, FALSE)

\* C4: a reserve_spot call records reservation_status = true exactly when it
\* changed the session's spot_id from unoccupied to occupied by the session's
\* apartment_number; when it records false the inventory is as it was; no other
\* row is touched either way
C4_ReserveAllOrNothing ==
  [][(last'.op = "reserve_spot" /\ last'.err = "none") =>
       LET sid == Session["spot_id"]
           apt == Session["apartment_number"]
           applied == \E i \in DOMAIN spots :
                        /\ spots[i].spot_id = sid
                        /\ spots[i].occupied = 0
                        /\ spots'[i] = [spots[i] EXCEPT !.occupied = 1, !.apartment = apt]
       IN  /\ DOMAIN spots' = DOMAIN spots
           /\ RowData(sessions')["reservation_status"] = applied
           /\ last'.ret["reservation_status"] = applied
           /\ ~applied => spots' = spots
           /\ \A i \in DOMAIN spots : spots[i].spot_id # sid => spots'[i] = spots[i]]_vars

\* C4 witness: reserve_spot has recorded false for a spot that another
\* apartment occupies
C4_Witness ==
  /\ Returned("reserve_spot")
  /\ last.ret["reservation_status"] = FALSE
  /\ \E i \in DOMAIN spots :
       /\ spots[i].spot_id = last.ret["spot_id"]
       /\ spots[i].occupied = 1
       /\ spots[i].apartment # last.ret["apartment_number"]

\* C5: find_packages records packages_found = true exactly when some spot is
\* occupied by the session's apartment_number, and packages_info lists exactly
\* those spots (stated for a non-empty apartment_number, so that a violation
\* does not rest on the empty occupant of C1)
C5_PackagesFoundIffOccupied ==
  (Returned("find_packages") /\ last.ret["apartment_number"] # EmptyStr) =>
    LET mine == OccupiedBy(spots, last.ret["apartment_number"])
        info == last.ret["packages_info"]
    IN  /\ last.ret["packages_found"] = (mine # {})
        /\ {info[k].spot_id : k \in DOMAIN info} = {spots[i].spot_id : i \in mine}
        /\ Len(info) = Cardinality(mine)

\* C6: release_packages records release_status = true exactly when the
\* session's apartment_number occupied at least one spot just before the call
C6_ReleaseStatusIffOccupied ==
  [][(last'.op = "release_packages" /\ last'.err = "none") =>
       (RowData(sessions')["release_status"]
          = (Cardinality(OccupiedBy(spots, Session["apartment_number"])) > 0))]_vars

\* C7: release_packages frees all and only the spots of the session's
\* apartment_number: afterwards none is occupied by it, every spot it occupied
\* is cleared, and every other spot is as before
C7_ReleaseAllAndOnly ==
  [][(last'.op = "release_packages" /\ last'.err = "none") =>
       LET apt == Session["apartment_number"]
       IN  /\ DOMAIN spots' = DOMAIN spots
           /\ OccupiedBy(spots', apt) = {}
           /\ \A i \in OccupiedBy(spots, apt) :
                spots'[i] = [spots[i] EXCEPT !.occupied = 0, !.apartment = EmptyStr]
           /\ \A i \in (DOMAIN spots) \ OccupiedBy(spots, apt) : spots'[i] = spots[i]]_vars

\* C7 witness: release_packages has released the spots of one apartment while
\* another apartment still occupies a spot
C7_Witness ==
  /\ Returned("release_packages")
  /\ last.ret["release_status"] = TRUE
  /\ last.ret["apartment_number"] # EmptyStr
  /\ \E i \in DOMAIN spots :
       /\ spots[i].occupied = 1
       /\ spots[i].apartment \notin {EmptyStr, last.ret["apartment_number"]}

\* C8: when find_available_spots finds no unoccupied spot of the session's
\* size, the snapshot it returns has spot_available = false and neither
\* spot_id nor spot_location (stated for a size in {S, M, L} and an inventory
\* without empty occupants, so that a violation rests on neither C1 nor C10)
C8_NoSpotLeavesIdUnset ==
  (/\ Returned("find_available_spots")
   /\ last.ret["size"] \in ValidSizes
   /\ C1_OccupiedIffOccupant
   /\ FreeOfSize(spots, last.ret["size"]) = {}) =>
    /\ last.ret["spot_available"] = FALSE
    /\ ~Has(last.ret, "spot_id")
    /\ ~Has(last.ret, "spot_location")

\* C9: when some spot of the session's size is unoccupied,
\* find_available_spots records spot_available = true and the spot_id and
\* location of the unoccupied spot of that size with the least spot_id
C9_FirstByAscendingId ==
  (Returned("find_available_spots") /\ FreeOfSize(spots, last.ret["size"]) # {}) =>
    LET free  == FreeOfSize(spots, last.ret["size"])
        first == CHOOSE i \in free :
                   \A j \in free : Rank(spots[i].spot_id) <= Rank(spots[j].spot_id)
    IN  /\ last.ret["spot_available"] = TRUE
        /\ last.ret["spot_id"] = spots[first].spot_id
        /\ last.ret["spot_location"] = spots[first].location

\* C10: set_size with a literal outside {S, M, L} raises InvalidInputError,
\* and only S, M or L is ever stored as size
C10_InvalidSizeRejected ==
  /\ Has(Session, "size") => Session["size"] \in ValidSizes
  /\ (last.op = "set_size" /\ last.arg \notin ValidSizes) => last.err = "InvalidInputError"

\* the session fields a tool function reads
Needs(op) ==
  CASE op = "find_available_spots" -> {"size"}
    [] op = "reserve_spot" -> {"apartment_number", "spot_id"}
    [] op \in {"find_packages", "release_packages"} -> {"apartment_number"}
    [] OTHER -> {}

\* how the caller sees state[k] fail
KeyErrorOf(k) ==
  CASE k = "size" -> "KeyError: size"
    [] k = "apartment_number" -> "KeyError: apartment_number"
    [] k = "spot_id" -> "KeyError: spot_id"

\* C11: a tool call that reads a session field the session does not hold
\* raises the KeyError of such a field, returns nothing, writes no field of
\* the session and leaves storage_space_details as it was; a call whose
\* fields are all there raises nothing
C11_MissingFieldRaises ==
  [][LET unset == Needs(last'.op) \ DOMAIN Session
     IN  /\ unset # {} =>
              /\ last'.err \in {KeyErrorOf(k) : k \in unset}
              /\ last'.ret = EmptyDict
              /\ spots' = spots
              /\ RowData(sessions') = Session
         /\ (Needs(last'.op) # {} /\ unset = {}) => last'.err = "none"]_vars

\* C11 witness: reserve_spot was called with an apartment_number but before any
\* spot was located, and raised, while the inventory holds a reservation
C11_Witness ==
  /\ last.op = "reserve_spot"
  /\ last.err = "KeyError: spot_id"
  /\ Has(Session, "apartment_number")
  /\ ~Has(Session, "spot_id")
  /\ \E i \in DOMAIN spots : spots[i].occupied = 1

\* flow f has made one call, to op, and it returned
MadeOnly(f, op) ==
  /\ pc[f] = "idle"
  /\ loc[f].n = 1
  /\ loc[f].out.op = op
  /\ loc[f].out.err = "none"

\* C12: when one flow has called set_size and another set_apartment, both
\* calls have returned and no other call was made, the session holds the size
\* and the apartment_number they wrote, however their statements interleaved
C12_NoLostWrite ==
  \A f, g \in Flows :
    (/\ f # g
     /\ MadeOnly(f, "set_size")
     /\ MadeOnly(g, "set_apartment")
     /\ \A h \in Flows \ {f, g} : loc[h].n = 0) =>
      /\ Has(Session, "size")
      /\ Session["size"] = loc[f].arg
      /\ Has(Session, "apartment_number")
      /\ Session["apartment_number"] = Upper(loc[g].arg)

\* C13: get_or_create_session never fails when flows call it while no session
\* row exists: whichever flow's INSERT comes second, no call ends with the
\* UNIQUE-constraint error, and the callers go on with the empty dict
C13_CreateNeverFails ==
  \A f \in Flows : loc[f].out.err # "IntegrityError"

\* the session keys a tool call writes when it starts from an empty session
WritesOnEmpty(op) ==
  CASE op = "set_size" -> {"size"}
    [] op = "set_apartment" -> {"apartment_number"}
    [] OTHER -> {}

\* C14: once delete_session has returned there is no session row, so the next
\* get_or_create_session yields the empty dict; and the snapshot returned by
\* the first tool call after it holds nothing but what that call wrote: no
\* field written before the delete_session is in it or in the stored session
C14_ResetLeavesNothing ==
  [][/\ last'.op = "delete_session" =>
          /\ RowIsNone(sessions')
          /\ GocData(sessions') = EmptyDict
     /\ (last.op = "delete_session" /\ last'.op # "delete_session") =>
          /\ DOMAIN last'.ret \subseteq WritesOnEmpty(last'.op)
          /\ DOMAIN RowData(sessions') = WritesOnEmpty(last'.op)
          /\ last'.op = "set_size" => last'.ret = [k \in {"size"} |-> last'.arg]
          /\ last'.op = "set_apartment" =>
               last'.ret = [k \in {"apartment_number"} |-> Upper(last'.arg)]]_vars

\* C14 witness: a session that had located and reserved a spot was deleted,
\* and the first call after that, set_apartment, returned a snapshot
C14_Witness ==
  /\ Returned("set_apartment")
  /\ last.n = 1
  /\ \E i \in DOMAIN spots : spots[i].occupied = 1

\* C15: delete_session never raises; it reports a deletion exactly when a
\* session row existed; called right after a delete_session it reports that
\* there was no session to delete and changes neither table, so the state
\* after two calls is the state after one
C15_ResetIdempotent ==
  [][last'.op = "delete_session" =>
       /\ last'.err = "none"
       /\ (last'.msg = "Session deleted successfully.") <=> ~RowIsNone(sessions)
       /\ (last'.msg = "No session found to delete.") <=> RowIsNone(sessions)
       /\ RowIsNone(sessions')
       /\ last.op = "delete_session" =>
            /\ last'.msg = "No session found to delete."
            /\ sessions' = sessions
            /\ spots' = spots]_vars

\* C15 witness: delete_session found no session although a reservation had
\* been made: the call before it was a delete_session too (every other tool
\* call leaves a session row)
C15_Witness ==
  /\ last.op = "delete_session"
  /\ last.msg = "No session found to delete."
  /\ \E i \in DOMAIN spots : spots[i].occupied = 1

\* the rows occupied by an apartment that is apt up to the case of its letters
OccupiedByAnyCase(tbl, apt) ==
  {i \in DOMAIN tbl : tbl[i].occupied = 1 /\ Upper(tbl[i].apartment) = Upper(apt)}

\* C16: set_apartment stores the same apartment_number for two arguments that
\* differ only in case ("3b", "3B"), and calling it with one and then the other
\* changes nothing; every occupant is stored in that upper-case form; so
\* find_packages lists, and release_packages clears, every spot reserved under
\* any spelling of the session's apartment
C16_CaseInsensitive ==
  [][/\ last'.op = "set_apartment" =>
          /\ RowData(sessions')["apartment_number"] = Upper(last'.arg)
          /\ \A s \in ApartmentArgs :
               Upper(s) = Upper(last'.arg) =>
                 set_apartment(sessions, spots, s).sessions = sessions'
     /\ (/\ last.op = "set_apartment"
         /\ last'.op = "set_apartment"
         /\ Upper(last'.arg) = Upper(last.arg)) => sessions' = sessions
     /\ \A i \in DOMAIN spots' : Upper(spots'[i].apartment) = spots'[i].apartment
     /\ (last'.op = "find_packages" /\ last'.err = "none") =>
          LET info == last'.ret["packages_info"]
          IN  {info[k].spot_id : k \in DOMAIN info}
                = {spots[i].spot_id : i \in OccupiedByAnyCase(spots, Session["apartment_number"])}
     /\ (last'.op = "release_packages" /\ last'.err = "none") =>
          /\ OccupiedByAnyCase(spots', Session["apartment_number"]) = {}
          /\ \A i \in OccupiedByAnyCase(spots, Session["apartment_number"]) :
               spots'[i].occupied = 0]_vars

\* C16 witness: set_apartment was given the lower-case spelling "3b" while a
\* spot is occupied under the upper-case form, which the snapshot now holds
C16_Witness ==
  /\ Returned("set_apartment")
  /\ last.arg = <<"3", "b">>
  /\ last.ret["apartment_number"] = <<"3", "B">>
  /\ \E i \in DOMAIN spots :
       spots[i].occupied = 1 /\ spots[i].apartment = <<"3", "B">>

\* C17: no tool call adds or deletes a row of storage_space_details or
\* changes a row's spot_id, size or location; apartment and occupied change
\* only in reserve_spot and release_packages: delete_session, set_size,
\* set_apartment, find_available_spots and find_packages leave the table as
\* it was
C17_OnlyReserveAndReleaseWrite ==
  [][/\ DOMAIN spots' = DOMAIN spots
     /\ \A i \in DOMAIN spots :
          /\ spots'[i].spot_id = spots[i].spot_id
          /\ spots'[i].size = spots[i].size
          /\ spots'[i].location = spots[i].location
     /\ last'.op \notin {"reserve_spot", "release_packages"} => spots' = spots]_vars

\* C17 witness: find_available_spots has returned a free spot of the
\* session's size while another spot of that size is occupied
C17_Witness ==
  /\ Returned("find_available_spots")
  /\ last.ret["spot_available"] = TRUE
  /\ \E i, j \in DOMAIN spots :
       /\ spots[i].spot_id = last.ret["spot_id"]
       /\ spots[i].occupied = 0
       /\ spots[j].size = spots[i].size
       /\ spots[j].occupied = 1

\* C18: init_storage_db inserts only config items whose spot_id is not in the
\* table: run on a table that holds reservations it leaves every existing row
\* as it is, leaves no spot_id twice, every new row is a fresh row of a config
\* item, every config item is in the table once it returned, and running it
\* again with the same config changes nothing
C18_InitStorageIdempotent ==
  [][last'.op = "init_storage_db" =>
       LET items == last'.arg
       IN  /\ spots' = InitStorageDb(spots, items)
           /\ \A i \in DOMAIN spots : i \in DOMAIN spots' /\ spots'[i] = spots[i]
           /\ \A i, j \in DOMAIN spots' : spots'[i].spot_id = spots'[j].spot_id => i = j
           /\ \A i \in (DOMAIN spots') \ (DOMAIN spots) :
                /\ spots'[i].spot_id \notin SpotIds(spots)
                /\ \E k \in DOMAIN items : spots'[i] = NewRow(items[k])
           /\ last'.err = "none" =>
                {items[k].spot_id : k \in DOMAIN items} \subseteq SpotIds(spots')
           /\ InitStorageDb(spots', items) = spots']_vars

\* C18 witness: init_storage_db has returned on a table that holds a
\* reservation and whose last row was added by a run later than the first
\* (that row is the first item of the config list)
C18_Witness ==
  /\ last.op = "init_storage_db"
  /\ last.err = "none"
  /\ Len(spots) = Len(Descriptor)
  /\ spots[Len(spots)].spot_id = Descriptor[1].spot_id
  /\ spots[1].spot_id = Descriptor[2].spot_id
  /\ \E i \in DOMAIN spots : spots[i].occupied = 1 /\ spots[i].apartment # EmptyStr

\* C19: a spot occupied by an apartment stays occupied by that apartment in
\* every step, except a release_packages step of a session whose
\* apartment_number is that apartment, which clears it; in particular no
\* reserve_spot writes a row that is occupied
C19_OccupantStaysUntilReleased ==
  [][\A i \in DOMAIN spots :
       spots[i].occupied = 1 =>
         \/ /\ i \in DOMAIN spots'
            /\ spots'[i] = spots[i]
         \/ /\ last'.op = "release_packages"
            /\ last'.err = "none"
            /\ Session["apartment_number"] = spots[i].apartment
            /\ i \in DOMAIN spots'
            /\ spots'[i] = [spots[i] EXCEPT !.occupied = 0, !.apartment = EmptyStr]]_vars

\* C19 witness: after a spot was reserved for one apartment the session took
\* another apartment_number and called release_packages, which released
\* nothing: the spot is still occupied by the first apartment
C19_Witness ==
  /\ Returned("release_packages")
  /\ last.ret["release_status"] = FALSE
  /\ Has(last.ret, "reservation_status")
  /\ last.ret["reservation_status"] = TRUE
  /\ \E i \in DOMAIN spots :
       /\ spots[i].spot_id = last.ret["spot_id"]
       /\ spots[i].occupied = 1
       /\ spots[i].apartment \notin {EmptyStr, last.ret["apartment_number"]}

\* C20: whenever reserve_spot records reservation_status = true, the session
\* holds spot_available = true from its latest find_available_spots and the
\* spot just occupied has the size the session holds (stated for a size in
\* {S, M, L} and a non-empty apartment_number, so that a violation rests on
\* neither C1 nor C10)
C20_NoStaleReservation ==
  (/\ Returned("reserve_spot")
   /\ last.ret["reservation_status"] = TRUE
   /\ last.ret["size"] \in ValidSizes
   /\ last.ret["apartment_number"] # EmptyStr) =>
    /\ last.ret["spot_available"] = TRUE
    /\ \A i \in DOMAIN spots :
         spots[i].spot_id = last.ret["spot_id"] => spots[i].size = last.ret["size"]

====
